---- MODULE Spec2Model ----
(***************************************************************************)
(* A model of pdf_proc2: the two-tier extraction cascade                   *)
(* (app/services/ai/cascade.py over app/services/ai/interface.py), the     *)
(* company-name normalizer (app/services/normalizer.py) and the job        *)
(* pipeline that runs both (app/main.py over app/services/pdf/processor.py *)
(* and the tables of app/models/schemas.py).                               *)
(*                                                                         *)
(* Python values are tagged records: None is [type |-> "NoneType"], an     *)
(* InvoiceMetadata carries its four fields.  A str is a sequence of        *)
(* one-character strings, so that strip, lower, re.sub and replace are     *)
(* computed character by character.  A confidence is an integer number of  *)
(* hundredths (0.85 is 85).                                                *)
(***************************************************************************)
EXTENDS Integers, Sequences, FiniteSets, TLC

VARIABLES
    provider,       \* settings.LLM_PROVIDER, fixed when CascadeService is built
    text,           \* process(text=...)
    image_bytes,    \* process(image_bytes=...)
    pc,             \* where the coroutine CascadeService.process stands
    result,         \* the local `result` of process: unbound, or bound to a value
    ret,            \* what process has done: pending, returned a pair, raised
    calls,          \* the backend's call log: call / return / raise events
    model_calls,    \* the provider models requested of the OpenAI client
    store,          \* the file at dict_path: missing, or its content
    mappings,       \* self.mappings of each CompanyNormalizer instance
    added,          \* per instance, the latest value add_mapping was given for each key
    adds,           \* the number of add_mapping calls made so far
    save_failed,    \* whether the save of some add_mapping call has failed
    last,           \* the normalizer call that returned last, and how its file I/O ended
    db_jobs,        \* the committed rows of the job table, by id
    db_invoices,    \* the committed rows of the invoice table, in insertion order
    files,          \* PROCESSED_DIR: which job's pages each file holds
    job_pc,         \* where the running process_pdf_task stands
    cur,            \* the job_id of the running process_pdf_task, 0 when none runs
    raw_text,       \* the local raw_text of the running task
    status_log,     \* per job, the statuses committed to its row, in order
    trace           \* per job, what its task met: cascade outcome, split, commits, error

cascade_vars == <<provider, text, image_bytes, pc, result, ret, calls, model_calls>>

normalizer_vars == <<store, mappings, added, adds, save_failed, last>>

job_vars == <<db_jobs, db_invoices, files, job_pc, cur, raw_text, status_log, trace>>

vars == <<provider, text, image_bytes, pc, result, ret, calls, model_calls,
          store, mappings, added, adds, save_failed, last,
          db_jobs, db_invoices, files, job_pc, cur, raw_text, status_log, trace>>

(***************************************************************************)
(* Values                                                                  *)
(***************************************************************************)

None == [type |-> "NoneType"]

\* CascadeService.__init__(confidence_threshold=0.85), in hundredths
confidence_threshold == 85

TIER_1 == "text_only"
TIER_2 == "vision_fallback"

MODEL_A_NAME == "gpt-4o-mini"
MODEL_B_NAME == "gpt-4o"

Providers == {"openai", "anthropic"}

\* Confidence values a provider may report: both sides of the threshold,
\* the threshold itself and the two ends of [0, 1].
Confidences == {0, confidence_threshold - 1, confidence_threshold, 100}

CompanyNames == {<<"A", "b">>, <<"A", "b", ",", " ", "I", "n", "c", ".">>}

InvoiceMetadata ==
    [type : {"InvoiceMetadata"}, company_name : CompanyNames,
     po_number : {"PO1"}, invoice_number : {"INV1"}, confidence : Confidences]

\* text as PDFService.extract_text yields it: "" (no text layer, or failure) or not
Texts == {<<>>, <<"I", "N", "V">>}

\* image_bytes: absent, an empty buffer, a rendered PNG
EmptyBytes == [type |-> "bytes", len |-> 0]
PngBytes == [type |-> "bytes", len |-> 4]
Images == {None, EmptyBytes, PngBytes}

\* Python truthiness of an Optional[str] / Optional[bytes] argument
Truthy(v) == v # None /\ v # <<>> /\ v # EmptyBytes

\* What the provider's client raises (network, auth, schema validation)
ProviderErrors == {"APIConnectionError", "ValidationError"}

Return(v) == [kind |-> "return", value |-> v]
Raise(e, mode) == [kind |-> "raise", error |-> [exc |-> e, mode |-> mode]]

(***************************************************************************)
(* The job table: schemas.py                                               *)
(***************************************************************************)

\* The number of uploads
NumJobs == 2

\* Job.id, as the table's autoincrement hands them out
Jobs == 1..NumJobs

PENDING == "pending"
PROCESSING == "processing"
COMPLETED == "completed"
FAILED == "failed"

\* No row with that id
NoJob == [status |-> "absent", error_message |-> None]

\* Job(filename=..., status=JobStatus.PENDING)
Job(status) == [status |-> status, error_message |-> None]

\* What a task has met so far
NoTrace == [task |-> "none", invoked |-> FALSE, split |-> "none",
            persist |-> "none", error |-> None]

\* Nothing was uploaded
JobIdle ==
    /\ db_jobs = [j \in Jobs |-> NoJob]
    /\ db_invoices = <<>>
    /\ files = {}
    /\ job_pc = "idle"
    /\ cur = 0
    /\ raw_text = <<>>
    /\ status_log = [j \in Jobs |-> <<>>]
    /\ trace = [j \in Jobs |-> NoTrace]

(***************************************************************************)
(* Strings: what str.strip, str.lower, str.replace and re.sub compute      *)
(***************************************************************************)

Uppers == <<"A", "B", "C", "D", "E", "F", "G", "H", "I", "J", "K", "L", "M",
            "N", "O", "P", "Q", "R", "S", "T", "U", "V", "W", "X", "Y", "Z">>
Lowers == <<"a", "b", "c", "d", "e", "f", "g", "h", "i", "j", "k", "l", "m",
            "n", "o", "p", "q", "r", "s", "t", "u", "v", "w", "x", "y", "z">>
Digits == {"0", "1", "2", "3", "4", "5", "6", "7", "8", "9"}

Range(f) == {f[i] : i \in DOMAIN f}

\* \s
IsSpace(c) == c \in {" ", "\t", "\n", "\r"}

WordChars == Range(Uppers) \cup Range(Lowers) \cup Digits \cup {"_"}

\* \w: letters, digits and the underscore
IsWord(c) == c \in WordChars

LowerOf == [c \in Range(Uppers) |-> Lowers[CHOOSE i \in DOMAIN Uppers : Uppers[i] = c]]

LowerChar(c) == IF c \in DOMAIN LowerOf THEN LowerOf[c] ELSE c

\* str.lower()
Lower(s) == [i \in 1..Len(s) |-> LowerChar(s[i])]

\* str.strip()
Strip(s) ==
    LET keep == {i \in DOMAIN s : ~IsSpace(s[i])}
    IN  IF keep = {} THEN <<>>
        ELSE SubSeq(s, CHOOSE i \in keep : \A j \in keep : i <= j,
                       CHOOSE i \in keep : \A j \in keep : i >= j)

IsKept(c) == IsWord(c) \/ IsSpace(c)

\* re.sub(r'[^\w\s]', '', s)
RemovePunctuation(s) == SelectSeq(s, IsKept)

IsNotBlank(c) == c # " "

\* s.replace(" ", "")
RemoveSpaces(s) == SelectSeq(s, IsNotBlank)

\* (inc|corp|llc|ltd|incorporated|corporation), in the pattern's order
Suffixes ==
    << <<"i", "n", "c">>,
       <<"c", "o", "r", "p">>,
       <<"l", "l", "c">>,
       <<"l", "t", "d">>,
       <<"i", "n", "c", "o", "r", "p", "o", "r", "a", "t", "e", "d">>,
       <<"c", "o", "r", "p", "o", "r", "a", "t", "i", "o", "n">> >>

WordAt(s, i) == i >= 1 /\ i <= Len(s) /\ IsWord(s[i])

\* \b holds between positions i - 1 and i of s
WordBoundary(s, i) == WordAt(s, i - 1) # WordAt(s, i)

\* The alternative k matches s at i, ignoring case, and \b holds after it
SuffixMatches(s, i, k) ==
    /\ i + Len(Suffixes[k]) - 1 <= Len(s)
    /\ Lower(SubSeq(s, i, i + Len(Suffixes[k]) - 1)) = Suffixes[k]
    /\ WordBoundary(s, i + Len(Suffixes[k]))

\* The length of the match of \b(...)\b\.? at position i of s, 0 when none
MatchLen(s, i) ==
    IF ~WordBoundary(s, i) \/ \A k \in DOMAIN Suffixes : ~SuffixMatches(s, i, k)
    THEN 0
    ELSE LET k == CHOOSE k \in DOMAIN Suffixes :
                    /\ SuffixMatches(s, i, k)
                    /\ \A h \in 1..(k - 1) : ~SuffixMatches(s, i, h)
             n == Len(Suffixes[k])
         IN  IF i + n <= Len(s) /\ s[i + n] = "." THEN n + 1 ELSE n

RECURSIVE RemoveFrom(_, _)
\* re.sub(pattern, '', s) from position i on: leftmost matches, not overlapping
RemoveFrom(s, i) ==
    IF i > Len(s) THEN <<>>
    ELSE IF MatchLen(s, i) > 0 THEN RemoveFrom(s, i + MatchLen(s, i))
    ELSE <<s[i]>> \o RemoveFrom(s, i + 1)

\* re.sub(r'\b(inc|corp|llc|ltd|incorporated|corporation)\b\.?', '', s, IGNORECASE)
RemoveSuffixes(s) == RemoveFrom(s, 1)

(***************************************************************************)
(* CompanyNormalizer: normalizer.py                                        *)
(***************************************************************************)

\* The bounds of the normalizer's state machine
NumInstances == 2
MaxAdds == 2

Instances == 1..NumInstances

\* Raw names given to add_mapping: clean, differing in case only, and with
\* surrounding whitespace, punctuation and a legal-entity suffix
RawNames ==
    {<<"A", "b">>, <<"A", "B">>, <<" ", "A", "b", ",", " ", "I", "n", "c", ".">>}

StandardNames == {<<"X">>, <<"Y", "_", "1">>}

Unknown_Company ==
    <<"U", "n", "k", "n", "o", "w", "n", "_", "C", "o", "m", "p", "a", "n", "y">>

\* A dict[str, str] is the sequence of its items, in insertion order
HasKey(d, k) == \E i \in DOMAIN d : d[i].key = k

DictSet_KeepsFirst(d, k, v) ==
    IF HasKey(d, k) THEN d ELSE Append(d, [key |-> k, value |-> v])

\* d[k] = v
DictSet(d, k, v) ==
    IF HasKey(d, k)
    THEN [i \in DOMAIN d |-> IF d[i].key = k THEN [key |-> k, value |-> v] ELSE d[i]]
    ELSE Append(d, [key |-> k, value |-> v])

\* json.dump(data, f, indent=4): the object's members, in the dict's order
JsonDump(d) == [kind |-> "json", members |-> d]

RECURSIVE JsonObject(_, _)
\* json.load of an object: its members are inserted one after the other
JsonObject(members, d) ==
    IF members = <<>> THEN d
    ELSE JsonObject(Tail(members), DictSet(d, Head(members).key, Head(members).value))

Missing == [kind |-> "missing"]
Corrupt == [kind |-> "corrupt"]

\* How an open-and-write can end: done; open() raises and the file is as it
\* was; open() has truncated the file and the write raises
SaveOutcomes == {"ok", "open_fails", "write_fails"}
\* How an open-and-read can end
LoadOutcomes == {"ok", "read_fails"}
\* How self.dict_path.exists() can end: stat() answers (the file is there or
\* not), or fails with an OSError that Path.exists re-raises (EACCES on the
\* data directory, ENAMETOOLONG, EIO)
ExistsOutcomes == {"ok", "stat_fails"}

SaveDictionary_WritesNothing(file, data, io) == file

\* _save_dictionary(data): the file afterwards; the exception is logged, not raised
SaveDictionary(file, data, io) ==
    CASE io = "ok" -> JsonDump(data)
      [] io = "open_fails" -> file
      [] OTHER -> Corrupt

\* _load_dictionary(): the dict it returns; the exception is logged, not raised
LoadDictionary(file, io) ==
    IF file.kind = "json" /\ io = "ok" THEN JsonObject(file.members, <<>>) ELSE <<>>

\* The lookup loop: the value of the first key equal to search_name ignoring case
Lookup(d, search_name) ==
    LET hits == {i \in DOMAIN d : Lower(d[i].key) = search_name}
    IN  IF hits = {} THEN <<>>
        ELSE <<d[CHOOSE i \in hits : \A j \in hits : i <= j].value>>

\* clean_name, after the two re.sub and the two strip
CleanName(raw_name) == Strip(RemovePunctuation(RemoveSuffixes(Strip(raw_name))))

\* normalize(raw_name) on an instance whose self.mappings is d
Normalize(d, raw_name) ==
    IF raw_name = <<>> THEN Unknown_Company
    ELSE LET clean_name == CleanName(raw_name)
             found == Lookup(d, Lower(clean_name))
         IN  IF found # <<>> THEN found[1] ELSE RemoveSpaces(clean_name)

Unbuilt == [built |-> FALSE]
Built(d) == [built |-> TRUE, dict |-> d]

\* The latest value given for key k among the pairs in `given`
Record(given, k, v) == {p \in given : p[1] # k} \cup {<<k, v>>}

\* No CompanyNormalizer has been built and the dictionary file does not exist
NormalizerIdle ==
    /\ store = Missing
    /\ mappings = [i \in Instances |-> Unbuilt]
    /\ added = [i \in Instances |-> {}]
    /\ adds = 0
    /\ save_failed = FALSE
    /\ last = [op |-> "none"]

\* CompanyNormalizer(): __init__ loads the dictionary, creating the file if missing
\* The exists() test is outside every try: when it raises, __init__ raises and
\* no instance comes to be
Construct(i) ==
    /\ ~mappings[i].built
    /\ \E st \in ExistsOutcomes :
        IF st = "stat_fails"
        THEN /\ store' = store
             /\ mappings' = mappings
             /\ last' = [op |-> "init", inst |-> i, io |-> st, raised |-> TRUE]
        ELSE IF store.kind = "missing"
        THEN \E io \in SaveOutcomes :
                /\ store' = SaveDictionary(store, <<>>, io)
                /\ mappings' = [mappings EXCEPT ![i] = Built(<<>>)]
                /\ last' = [op |-> "init", inst |-> i, io |-> io, raised |-> FALSE]
        ELSE \E io \in LoadOutcomes :
                /\ store' = store
                /\ mappings' = [mappings EXCEPT ![i] = Built(LoadDictionary(store, io))]
                /\ last' = [op |-> "init", inst |-> i, io |-> io, raised |-> FALSE]
    /\ UNCHANGED <<added, adds, save_failed>>
    /\ UNCHANGED <<cascade_vars, job_vars>>

\* add_mapping(raw_name, standardized_name)
AddMapping(i, raw_name, standardized_name) ==
    /\ mappings[i].built
    /\ adds < MaxAdds
    /\ \E io \in SaveOutcomes :
        LET d == DictSet(mappings[i].dict, raw_name, standardized_name)
        IN  /\ mappings' = [mappings EXCEPT ![i] = Built(d)]
            /\ store' = SaveDictionary(store, d, io)
            /\ last' = [op |-> "add_mapping", inst |-> i, raw_name |-> raw_name,
                        standardized_name |-> standardized_name, io |-> io,
                        raised |-> FALSE]
            /\ save_failed' = (save_failed \/ io # "ok")
    /\ added' = [added EXCEPT ![i] = Record(added[i], raw_name, standardized_name)]
    /\ adds' = adds + 1
    /\ UNCHANGED <<cascade_vars, job_vars>>

\* The cascade is not running
CascadeIdle ==
    /\ provider = "openai"
    /\ text = <<>>
    /\ image_bytes = [type |-> "NoneType"]
    /\ pc = "idle"
    /\ result = [bound |-> FALSE]
    /\ ret = [kind |-> "pending"]
    /\ calls = <<>>
    /\ model_calls = <<>>

\* The dictionary file does not exist yet, or holds an empty object
NormalizerInit ==
    /\ store \in {Missing, JsonDump(<<>>)}
    /\ mappings = [i \in Instances |-> Unbuilt]
    /\ added = [i \in Instances |-> {}]
    /\ adds = 0
    /\ save_failed = FALSE
    /\ last = [op |-> "none"]
    /\ CascadeIdle
    /\ JobIdle

NormalizerNext ==
    \/ \E i \in Instances : Construct(i)
    \/ \E i \in Instances, a \in RawNames, b \in StandardNames : AddMapping(i, a, b)

SpecNormalizer == NormalizerInit /\ [][NormalizerNext]_vars

(***************************************************************************)
(* normalize called over and over on one CompanyNormalizer                 *)
(***************************************************************************)

\* The longest raw name given to normalize, in tokens
MaxTokens == 3

\* The pieces raw names are made of: a word, a legal-entity suffix, a blank,
\* a tab, an underscore, a full stop
Tokens == {<<"A", "b">>, <<"I", "n", "c">>, <<" ">>, <<"\t">>, <<"_">>, <<".">>}

RECURSIVE Flatten(_)
Flatten(ts) == IF ts = <<>> THEN <<>> ELSE Head(ts) \o Flatten(Tail(ts))

NormalizeInputs == {Flatten(ts) : ts \in UNION {[1..n -> Tokens] : n \in 0..MaxTokens}}

\* The dictionaries the instance was loaded with
LoadedDicts == {<<>>, <<[key |-> <<"A", "b">>, value |-> <<"X">>]>>}

\* normalize(raw_name) on instance i; `again` tells that raw_name is the string
\* the previous call returned
NormalizeCall(i, raw_name, again) ==
    /\ mappings[i].built
    /\ again => (last.op = "normalize" /\ last.inst = i /\ raw_name = last.ret)
    /\ last' = [op |-> "normalize", inst |-> i, raw_name |-> raw_name,
                ret |-> Normalize(mappings[i].dict, raw_name), again |-> again,
                raised |-> FALSE]
    /\ UNCHANGED <<store, mappings, added, adds, save_failed>>
    /\ UNCHANGED <<cascade_vars, job_vars>>

\* One CompanyNormalizer, just built from a store that holds a dictionary
NormalizeInit ==
    /\ \E d \in LoadedDicts :
        /\ store = JsonDump(d)
        /\ mappings = [i \in Instances |-> IF i = 1 THEN Built(LoadDictionary(store, "ok"))
                                                    ELSE Unbuilt]
    /\ added = [i \in Instances |-> {}]
    /\ adds = 0
    /\ save_failed = FALSE
    /\ last = [op |-> "none"]
    /\ CascadeIdle
    /\ JobIdle

NormalizeNext ==
    \/ \E i \in Instances, r \in NormalizeInputs : NormalizeCall(i, r, FALSE)
    \/ \E i \in Instances : last.op = "normalize" /\ NormalizeCall(i, last.ret, TRUE)

SpecNormalize == NormalizeInit /\ [][NormalizeNext]_vars

(***************************************************************************)
(* The backends: interface.py                                              *)
(***************************************************************************)

Unbound == "<unbound>"

OpenAIModel_DefaultsToA(t, img) ==
    IF Truthy(img) /\ ~Truthy(t) THEN MODEL_B_NAME ELSE MODEL_A_NAME

\* OpenAIBackend.extract_invoice_data: the model the if / elif selects
OpenAIModel(t, img) ==
    IF Truthy(t) /\ ~Truthy(img) THEN MODEL_A_NAME
    ELSE IF Truthy(img) THEN MODEL_B_NAME
    ELSE Unbound

\* OpenAIBackend.extract_invoice_data: every way the call can end
OpenAIResponses(t, img, mode) ==
    IF OpenAIModel(t, img) = Unbound
    THEN {Raise("UnboundLocalError", mode)}
    ELSE {Return(r) : r \in InvoiceMetadata}
         \cup {Raise(e, mode) : e \in ProviderErrors}

\* AnthropicBackend.extract_invoice_data: the body is `pass`
AnthropicResponses(t, img, mode) == {Return(None)}

\* get_llm_backend().extract_invoice_data
BackendResponses(p, t, img, mode) ==
    IF p = "openai" THEN OpenAIResponses(t, img, mode)
    ELSE AnthropicResponses(t, img, mode)

\* The provider models the call requests of its client
ModelRequests(p, t, img) ==
    IF p = "openai" /\ OpenAIModel(t, img) # Unbound
    THEN <<OpenAIModel(t, img)>> ELSE <<>>

(***************************************************************************)
(* CascadeService.process: cascade.py                                      *)
(***************************************************************************)

Pending == [kind |-> "pending"]
Returned(v, tier) == [kind |-> "return", value |-> v, tier |-> tier]
Raised(err) == [kind |-> "raise", error |-> err]

ValueErrorNoImage ==
    [exc |-> "ValueError: Extraction failed and no image available for fallback.",
     mode |-> "none"]

UnboundResult == [bound |-> FALSE]
Bound(v) == [bound |-> TRUE, value |-> v]

MeetsThreshold_Strict(confidence) == confidence > confidence_threshold

\* `result.confidence >= self.confidence_threshold`
MeetsThreshold(confidence) == confidence >= confidence_threshold

CascadeInit ==
    /\ provider \in Providers
    /\ text \in Texts
    /\ image_bytes \in Images
    /\ pc = "tier1_call"
    /\ result = UnboundResult
    /\ ret = Pending
    /\ calls = <<>>
    /\ model_calls = <<>>
    /\ NormalizerIdle
    /\ JobIdle

Tier1Call_Speculative ==
    /\ pc = "tier1_call"
    /\ calls' = calls \o <<[ev |-> "call", mode |-> "text"],
                           [ev |-> "call", mode |-> "image"]>>
    /\ model_calls' = model_calls \o ModelRequests(provider, text, None)
    /\ pc' = "tier1_await"
    /\ UNCHANGED <<provider, text, image_bytes, result, ret>>
    /\ UNCHANGED <<normalizer_vars, job_vars>>

\* `await self.backend.extract_invoice_data(text=text)`: the call is made
Tier1Call ==
    /\ pc = "tier1_call"
    /\ calls' = Append(calls, [ev |-> "call", mode |-> "text"])
    /\ model_calls' = model_calls \o ModelRequests(provider, text, None)
    /\ pc' = "tier1_await"
    /\ UNCHANGED <<provider, text, image_bytes, result, ret>>
    /\ UNCHANGED <<normalizer_vars, job_vars>>

\* The Tier-1 call returns v: `result` is bound, then its confidence is read
Tier1Return ==
    /\ pc = "tier1_await"
    /\ \E o \in BackendResponses(provider, text, None, "text") :
        /\ o.kind = "return"
        /\ calls' = Append(calls, [ev |-> "return", mode |-> "text", value |-> o.value])
        /\ result' = Bound(o.value)
        /\ IF o.value = None
           THEN \* AttributeError on None.confidence, caught by `except Exception`
                /\ pc' = "gate"
                /\ ret' = ret
           ELSE IF MeetsThreshold(o.value.confidence)
           THEN /\ pc' = "done"
                /\ ret' = Returned(o.value, TIER_1)
           ELSE /\ pc' = "gate"
                /\ ret' = ret
    /\ UNCHANGED <<provider, text, image_bytes, model_calls>>
    /\ UNCHANGED <<normalizer_vars, job_vars>>

\* The Tier-1 call raises: caught by `except Exception`, `result` stays unbound
Tier1Raise ==
    /\ pc = "tier1_await"
    /\ \E o \in BackendResponses(provider, text, None, "text") :
        /\ o.kind = "raise"
        /\ calls' = Append(calls, [ev |-> "raise", mode |-> "text", error |-> o.error])
    /\ pc' = "gate"
    /\ UNCHANGED <<provider, text, image_bytes, result, ret, model_calls>>
    /\ UNCHANGED <<normalizer_vars, job_vars>>

NoImageOutcome_AlwaysRaise(res) == Raised(ValueErrorNoImage)

NoImageOutcome_NeverRaise(res) ==
    IF res.bound THEN Returned(res.value, TIER_1) ELSE Returned(None, TIER_1)

\* `if 'result' in locals(): return result, TIER_1` else `raise ValueError(...)`
NoImageOutcome(res) ==
    IF res.bound THEN Returned(res.value, TIER_1) ELSE Raised(ValueErrorNoImage)

\* `if not image_bytes:` the escalation gate, then the Tier-2 call is made
EscalationGate ==
    /\ pc = "gate"
    /\ IF ~Truthy(image_bytes)
       THEN /\ ret' = NoImageOutcome(result)
            /\ pc' = "done"
            /\ UNCHANGED <<calls, model_calls>>
       ELSE /\ calls' = Append(calls, [ev |-> "call", mode |-> "image"])
            /\ model_calls' = model_calls \o ModelRequests(provider, None, image_bytes)
            /\ pc' = "tier2_await"
            /\ ret' = ret
    /\ UNCHANGED <<provider, text, image_bytes, result>>
    /\ UNCHANGED <<normalizer_vars, job_vars>>

Tier2Accept_Gated(res, vision_result) ==
    IF vision_result # None /\ ~MeetsThreshold(vision_result.confidence) /\ res.bound
    THEN Returned(res.value, TIER_1)
    ELSE Returned(vision_result, TIER_2)

\* `return vision_result, TierUsed.TIER_2`
Tier2Accept(res, vision_result) == Returned(vision_result, TIER_2)

\* The Tier-2 call returns
Tier2Return ==
    /\ pc = "tier2_await"
    /\ \E o \in BackendResponses(provider, None, image_bytes, "image") :
        /\ o.kind = "return"
        /\ calls' = Append(calls, [ev |-> "return", mode |-> "image", value |-> o.value])
        /\ ret' = Tier2Accept(result, o.value)
    /\ pc' = "done"
    /\ UNCHANGED <<provider, text, image_bytes, result, model_calls>>
    /\ UNCHANGED <<normalizer_vars, job_vars>>

Tier2Failure_AlwaysRaise(res, e) == Raised(e)

Tier2Failure_ValueError(res, e) ==
    IF res.bound THEN Returned(res.value, TIER_1) ELSE Raised(ValueErrorNoImage)

\* `except Exception as e:` `if 'result' in locals(): return result, TIER_1` `raise e`
Tier2Failure(res, e) ==
    IF res.bound THEN Returned(res.value, TIER_1) ELSE Raised(e)

\* The Tier-2 call raises
Tier2Raise ==
    /\ pc = "tier2_await"
    /\ \E o \in BackendResponses(provider, None, image_bytes, "image") :
        /\ o.kind = "raise"
        /\ calls' = Append(calls, [ev |-> "raise", mode |-> "image", error |-> o.error])
        /\ ret' = Tier2Failure(result, o.error)
    /\ pc' = "done"
    /\ UNCHANGED <<provider, text, image_bytes, result, model_calls>>
    /\ UNCHANGED <<normalizer_vars, job_vars>>

CascadeNext ==
    \/ Tier1Call
    \/ Tier1Return
    \/ Tier1Raise
    \/ EscalationGate
    \/ Tier2Return
    \/ Tier2Raise

SpecCascade == CascadeInit /\ [][CascadeNext]_vars

(***************************************************************************)
(* The job pipeline: main.py over processor.py                             *)
(*                                                                         *)
(* The tables hold what has been committed.  A commit writes everything    *)
(* the session holds or nothing: when it fails the session rolls back,     *)
(* which drops the objects added since the last commit.  Tasks run one at  *)
(* a time, in the order of the uploads; an upload only adds a row of its   *)
(* own, so it is taken between two tasks.                                  *)
(***************************************************************************)

\* How db.commit() can end
CommitOutcomes == {"ok", "fails"}
\* How render_page_to_image can end
RenderOutcomes == {"ok", "fails"}
\* How split_pdf can end: done; the source does not open and nothing is
\* written; new_doc.save raises and leaves the file at out_path unusable
SplitOutcomes == {"ok", "source_fails", "save_fails"}

CommitError == [exc |-> "OperationalError", mode |-> "commit"]
RenderError == [exc |-> "FileDataError", mode |-> "render"]
SplitSourceError == [exc |-> "FileDataError", mode |-> "split"]
SplitSaveError == [exc |-> "RuntimeError", mode |-> "split"]
\* metadata.company_name with metadata None
MetadataError == [exc |-> "AttributeError", mode |-> "metadata"]

\* The message of exception e
Message(e) ==
    CASE e.exc = "OperationalError" -> "database is locked"
      [] e.exc = "FileDataError" -> "Failed to open file"
      [] e.exc = "RuntimeError" -> "cannot save file"
      [] e.exc = "AttributeError" -> "'NoneType' object has no attribute 'company_name'"
      [] e.exc = "APIConnectionError" -> "Connection error."
      [] e.exc = "ValidationError" -> "1 validation error for InvoiceMetadata"
      [] e.exc = "UnboundLocalError" ->
            "cannot access local variable 'model' where it is not associated with a value"
      [] e = ValueErrorNoImage -> "Extraction failed and no image available for fallback."
      [] OTHER -> e.exc

\* str(e): a str holding the exception's message, without its class
Str(e) == [type |-> "str", value |-> Message(e)]

FailedRow_NoMessage(row, e) == [row EXCEPT !.status = FAILED]

\* job.status = JobStatus.FAILED; job.error_message = str(e)
FailedRow(row, e) == [row EXCEPT !.status = FAILED, !.error_message = Str(e)]

\* f"{standardized_company} PO{metadata.po_number} INV{metadata.invoice_number}.pdf"
NewFilename(standardized_company, metadata) ==
    standardized_company \o <<" ", "PO", metadata.po_number, " ", "INV",
                               metadata.invoice_number, ".pdf">>

\* split_pdf: the name gets ".pdf" appended unless it ends with it
SplitName(name) ==
    IF name # <<>> /\ name[Len(name)] = ".pdf" THEN name ELSE name \o <<".pdf">>

\* new_doc.save(str(out_path)): the file is created or replaced; holds = 0 is
\* a file a failed save left behind
WriteFile(dir, out_path, holds) ==
    {f \in dir : f.path # out_path} \cup {[path |-> out_path, holds |-> holds]}

NewInvoice_Tier1(job_id, standardized_company, metadata, tier, text_, out_path) ==
    [job_id |-> job_id, company_name |-> standardized_company,
     po_number |-> metadata.po_number, invoice_number |-> metadata.invoice_number,
     tier_used |-> TIER_1, raw_text |-> text_,
     confidence_score |-> metadata.confidence, original_split_path |-> out_path]

\* Invoice(job_id=job.id, ..., original_split_path=str(output_paths[0]))
NewInvoice(job_id, standardized_company, metadata, tier, text_, out_path) ==
    [job_id |-> job_id, company_name |-> standardized_company,
     po_number |-> metadata.po_number, invoice_number |-> metadata.invoice_number,
     tier_used |-> tier, raw_text |-> text_,
     confidence_score |-> metadata.confidence, original_split_path |-> out_path]

\* The coroutine process has ended and its frame is gone
CascadeReset ==
    /\ provider' = provider
    /\ text' = <<>>
    /\ image_bytes' = None
    /\ pc' = "idle"
    /\ result' = UnboundResult
    /\ ret' = Pending
    /\ calls' = <<>>
    /\ model_calls' = <<>>

\* The task of job j is over; met is what it met
TaskEnds(j, met) ==
    /\ trace' = [trace EXCEPT ![j] = met]
    /\ job_pc' = "idle"
    /\ cur' = 0
    /\ raw_text' = <<>>

\* except Exception as e: the failed status and the message are committed,
\* or that commit raises too and the task ends with its exception.  What the
\* try block added to the session and did not commit is not written.
ExceptionHandler(j, e, met) ==
    /\ \E c \in CommitOutcomes :
        IF c = "ok"
        THEN /\ db_jobs' = [db_jobs EXCEPT ![j] = FailedRow(@, e)]
             /\ status_log' = [status_log EXCEPT ![j] = Append(@, FAILED)]
             /\ TaskEnds(j, [met EXCEPT !.task = "returned", !.error = e])
        ELSE /\ db_jobs' = db_jobs
             /\ status_log' = status_log
             /\ TaskEnds(j, [met EXCEPT !.task = "raised", !.error = e])
    /\ db_invoices' = db_invoices

\* upload_pdf: the job row is committed and the task queued
Upload(j) ==
    /\ cur = 0
    /\ db_jobs[j] = NoJob
    /\ \A k \in Jobs : k < j => db_jobs[k] # NoJob
    /\ db_jobs' = [db_jobs EXCEPT ![j] = Job(PENDING)]
    /\ status_log' = [status_log EXCEPT ![j] = <<PENDING>>]
    /\ trace' = [trace EXCEPT ![j].task = "queued"]
    /\ UNCHANGED <<db_invoices, files, job_pc, cur, raw_text>>
    /\ UNCHANGED <<cascade_vars, normalizer_vars>>

\* process_pdf_task up to the first commit
BeginTask(j) ==
    /\ cur = 0
    /\ trace[j].task = "queued"
    /\ \A k \in Jobs : k < j => trace[k].task \in {"returned", "raised"}
    /\ db_jobs[j] # NoJob
    /\ \E c \in CommitOutcomes :
        IF c = "ok"
        THEN /\ db_jobs' = [db_jobs EXCEPT ![j].status = PROCESSING]
             /\ status_log' = [status_log EXCEPT ![j] = Append(@, PROCESSING)]
             /\ trace' = [trace EXCEPT ![j].task = "running"]
             /\ job_pc' = "extract"
             /\ cur' = j
             /\ UNCHANGED <<db_invoices, raw_text>>
        ELSE ExceptionHandler(j, CommitError, trace[j])
    /\ UNCHANGED files
    /\ UNCHANGED <<cascade_vars, normalizer_vars>>

\* extract_text, render_page_to_image, and the call of ai_service.process
ExtractAndRender(j) ==
    /\ job_pc = "extract"
    /\ cur = j
    /\ \E t \in Texts, r \in RenderOutcomes :
        IF r = "fails"
        THEN /\ ExceptionHandler(j, RenderError, trace[j])
             /\ UNCHANGED cascade_vars
        ELSE /\ raw_text' = t
             /\ job_pc' = "cascade"
             /\ text' = t
             /\ image_bytes' = PngBytes
             /\ pc' = "tier1_call"
             /\ result' = UnboundResult
             /\ ret' = Pending
             /\ calls' = <<>>
             /\ model_calls' = <<>>
             /\ trace' = [trace EXCEPT ![j].invoked = TRUE]
             /\ UNCHANGED <<provider, db_jobs, db_invoices, cur, status_log>>
    /\ UNCHANGED files
    /\ UNCHANGED normalizer_vars

\* process_pdf_task from the return of ai_service.process to its end
AfterCascade(j) ==
    /\ job_pc = "cascade"
    /\ cur = j
    /\ pc = "done"
    /\ CascadeReset
    /\ LET met == trace[j]
       IN  IF ret.kind = "raise"
           THEN /\ ExceptionHandler(j, ret.error, met)
                /\ UNCHANGED files
           ELSE IF ret.value = None
           THEN /\ ExceptionHandler(j, MetadataError, met)
                /\ UNCHANGED files
           ELSE
           LET metadata == ret.value
               tier == ret.tier
               standardized_company == Normalize(mappings[1].dict, metadata.company_name)
               out_path == SplitName(NewFilename(standardized_company, metadata))
           IN  \E s \in SplitOutcomes :
               CASE s = "source_fails" ->
                    /\ ExceptionHandler(j, SplitSourceError, [met EXCEPT !.split = s])
                    /\ UNCHANGED files
                 [] s = "save_fails" ->
                    /\ ExceptionHandler(j, SplitSaveError, [met EXCEPT !.split = s])
                    /\ files' = WriteFile(files, out_path, 0)
                 [] OTHER ->
                    /\ files' = WriteFile(files, out_path, j)
                    /\ \E c \in CommitOutcomes :
                        IF c = "fails"
                        THEN ExceptionHandler(j, CommitError,
                                 [met EXCEPT !.split = s, !.persist = c])
                        ELSE /\ db_invoices' = Append(db_invoices,
                                    NewInvoice(j, standardized_company, metadata, tier,
                                               raw_text, out_path))
                             /\ db_jobs' = [db_jobs EXCEPT ![j].status = COMPLETED]
                             /\ status_log' = [status_log EXCEPT ![j] = Append(@, COMPLETED)]
                             /\ TaskEnds(j, [met EXCEPT !.split = s, !.persist = c,
                                                        !.task = "returned"])
    /\ UNCHANGED normalizer_vars

\* The application has started: the provider is configured, the module-level
\* normalizer is built from the dictionary file, no job exists
JobInit ==
    /\ provider \in Providers
    /\ text = <<>>
    /\ image_bytes = None
    /\ pc = "idle"
    /\ result = UnboundResult
    /\ ret = Pending
    /\ calls = <<>>
    /\ model_calls = <<>>
    /\ \E d \in LoadedDicts :
        /\ store = JsonDump(d)
        /\ mappings = [i \in Instances |-> IF i = 1 THEN Built(LoadDictionary(store, "ok"))
                                                    ELSE Unbuilt]
    /\ added = [i \in Instances |-> {}]
    /\ adds = 0
    /\ save_failed = FALSE
    /\ last = [op |-> "none"]
    /\ JobIdle

JobNext ==
    \/ \E j \in Jobs : Upload(j)
    \/ \E j \in Jobs : BeginTask(j)
    \/ \E j \in Jobs : ExtractAndRender(j)
    \/ CascadeNext
    \/ \E j \in Jobs : AfterCascade(j)

SpecJob == JobInit /\ [][JobNext]_vars

(***************************************************************************)
(* Properties of CascadeService.process                                    *)
(***************************************************************************)

IsCall(i, mode) == calls[i].ev = "call" /\ calls[i].mode = mode
IsReturn(i, mode) == calls[i].ev = "return" /\ calls[i].mode = mode
IsRaise(i, mode) == calls[i].ev = "raise" /\ calls[i].mode = mode
IsEnd(i, mode) == IsReturn(i, mode) \/ IsRaise(i, mode)

CountCalls(mode) == Cardinality({i \in DOMAIN calls : IsCall(i, mode)})

\* The Tier-1 call returned an InvoiceMetadata below the threshold
IsLowReturn(i) ==
    /\ IsReturn(i, "text")
    /\ calls[i].value # None
    /\ calls[i].value.confidence < confidence_threshold

\* The Tier-1 call returned an InvoiceMetadata at or above the threshold
IsHighReturn(i) ==
    /\ IsReturn(i, "text")
    /\ calls[i].value # None
    /\ calls[i].value.confidence >= confidence_threshold

\* C1: when the Tier-1 call returns a result whose confidence is at least the
\* threshold (equality included), process has returned exactly that result
\* with tier text_only, and no image call is ever made, image or no image.
C1_HighConfidenceIsTextOnly ==
    \A i \in DOMAIN calls :
        IsHighReturn(i) =>
            /\ pc = "done"
            /\ ret = Returned(calls[i].value, TIER_1)
            /\ CountCalls("image") = 0

C1_Witness ==
    /\ pc = "done"
    /\ image_bytes = PngBytes
    /\ \E i \in DOMAIN calls :
        /\ IsHighReturn(i)
        /\ calls[i].value.confidence = confidence_threshold
        /\ ret = Returned(calls[i].value, TIER_1)

\* C2: when the Tier-2 call returns, process returns exactly that value with
\* tier vision_fallback, whatever its confidence and whether Tier 1 had
\* returned a low-confidence result or had raised.
C2_VisionResultReturnedAsIs ==
    \A i \in DOMAIN calls :
        IsReturn(i, "image") =>
            /\ pc = "done"
            /\ ret = Returned(calls[i].value, TIER_2)

C2_Witness ==
    /\ pc = "done"
    /\ \E j \in DOMAIN calls : IsLowReturn(j)
    /\ \E i \in DOMAIN calls :
        /\ IsReturn(i, "image")
        /\ calls[i].value # None
        /\ calls[i].value.confidence = 0
        /\ ret = Returned(calls[i].value, TIER_2)

\* C3: with an image, a Tier-1 result below the threshold and a Tier-2 call
\* that raises, process returns the Tier-1 result unchanged, as text_only.
C3_LowConfidenceSurvivesTier2Failure ==
    \A i, j \in DOMAIN calls :
        (Truthy(image_bytes) /\ IsLowReturn(i) /\ IsRaise(j, "image")) =>
            /\ pc = "done"
            /\ ret = Returned(calls[i].value, TIER_1)

C3_Witness ==
    /\ pc = "done"
    /\ Truthy(image_bytes)
    /\ \E i, j \in DOMAIN calls :
        /\ IsLowReturn(i)
        /\ IsRaise(j, "image")
        /\ ret = Returned(calls[i].value, TIER_1)

\* C4: without an image, a Tier-1 result below the threshold is what process
\* returns, as text_only, and no Tier-2 call is made.
C4_NoImageLowConfidenceReturned ==
    \A i \in DOMAIN calls :
        (~Truthy(image_bytes) /\ IsLowReturn(i)) =>
            /\ CountCalls("image") = 0
            /\ pc \in {"gate", "done"}
            /\ pc = "done" => ret = Returned(calls[i].value, TIER_1)

C4_Witness ==
    /\ pc = "done"
    /\ image_bytes = None
    /\ \E i \in DOMAIN calls :
        /\ IsLowReturn(i)
        /\ ret = Returned(calls[i].value, TIER_1)

\* C5: without an image, when the Tier-1 call raises, process raises the
\* "no image available" ValueError, returns nothing, and makes no Tier-2 call.
C5_NoImageTier1RaiseFails ==
    \A i \in DOMAIN calls :
        (~Truthy(image_bytes) /\ IsRaise(i, "text")) =>
            /\ CountCalls("image") = 0
            /\ pc \in {"gate", "done"}
            /\ pc = "done" => ret = Raised(ValueErrorNoImage)

C5_Witness ==
    /\ pc = "done"
    /\ image_bytes = None
    /\ \E i \in DOMAIN calls : IsRaise(i, "text")
    /\ ret = Raised(ValueErrorNoImage)

\* C6: with an image, when the Tier-1 call raises and the Tier-2 call raises,
\* process raises, and what it raises is the Tier-2 call's exception.
C6_BothTiersRaisePropagatesTier2 ==
    \A i, j \in DOMAIN calls :
        (Truthy(image_bytes) /\ IsRaise(i, "text") /\ IsRaise(j, "image")) =>
            /\ pc = "done"
            /\ ret = Raised(calls[j].error)
            /\ calls[j].error # calls[i].error

C6_Witness ==
    /\ pc = "done"
    /\ Truthy(image_bytes)
    /\ \E i, j \in DOMAIN calls :
        /\ IsRaise(i, "text")
        /\ IsRaise(j, "image")
        /\ ret = Raised(calls[j].error)

\* The call log of one invocation is: call text, its end, then at most one
\* call image and its end; a call is in flight only while process awaits it.
CallsSequential ==
    /\ pc = "tier1_call" <=> calls = <<>>
    /\ calls # <<>> => IsCall(1, "text")
    /\ CountCalls("text") <= 1
    /\ CountCalls("image") <= 1
    /\ pc = "done" => CountCalls("text") = 1
    /\ \A i \in DOMAIN calls :
        /\ calls[i].ev = "call" =>
              IF i = Len(calls)
              THEN pc = (IF calls[i].mode = "text" THEN "tier1_await" ELSE "tier2_await")
              ELSE IsEnd(i + 1, calls[i].mode)
        /\ IsCall(i, "image") => \E j \in 1..(i - 1) : IsEnd(j, "text")

\* C7: the backend calls of one invocation are strictly sequential: the text
\* call is made once and first, the image call at most once and only after
\* the text call has ended, no two calls overlap, and nothing is called once
\* process has returned or raised.
C7_BackendCallsSequential ==
    /\ []CallsSequential
    /\ [][pc = "done" => (calls' = calls /\ pc' = "done")]_vars

C7_Witness ==
    /\ pc = "done"
    /\ Len(calls) = 4
    /\ IsCall(3, "image")

C18_EmptyTextEscalates ==
    (provider = "openai" /\ text = <<>> /\ Truthy(image_bytes)) =>
        /\ \A k \in DOMAIN model_calls : model_calls[k] # MODEL_A_NAME
        /\ pc \in {"tier1_call", "tier1_await", "gate"} => model_calls = <<>>
        /\ pc \in {"gate", "tier2_await", "done"} =>
              /\ IsRaise(2, "text")
              /\ calls[2].error.exc = "UnboundLocalError"
              /\ ~result.bound
        /\ pc = "done" =>
              /\ Len(calls) = 4
              /\ IsCall(3, "image")
              /\ model_calls = <<MODEL_B_NAME>>
              /\ IsReturn(4, "image") => ret = Returned(calls[4].value, TIER_2)
              /\ IsRaise(4, "image") => ret = Raised(calls[4].error)

C18_Witness ==
    /\ provider = "openai"
    /\ text = <<>>
    /\ image_bytes = PngBytes
    /\ pc = "done"
    /\ IsReturn(4, "image")
    /\ ret = Returned(calls[4].value, TIER_2)

(***************************************************************************)
(* Properties of CompanyNormalizer                                         *)
(***************************************************************************)

\* add_mapping has just returned on instance last.inst
AddReturned == last.op = "add_mapping"

\* The file holds exactly the dict d, every key given to instance i with the
\* value it was last given
StoreHolds(i, d) ==
    /\ store.kind = "json"
    /\ store.members = d
    /\ LoadDictionary(store, "ok") = d
    /\ \A p \in added[i] :
        \E k \in DOMAIN store.members :
            store.members[k] = [key |-> p[1], value |-> p[2]]

\* C9: after add_mapping(a, b), a fresh CompanyNormalizer loaded from the same
\* store returns normalize(a) = b, for every raw name a: with a legal-entity
\* suffix, punctuation or surrounding whitespace too.  (Read with the save
\* and the fresh load both succeeding.)
C9_RoundTrip ==
    (AddReturned /\ last.io = "ok") =>
        Normalize(LoadDictionary(store, "ok"), last.raw_name) = last.standardized_name

\* C10 as claimed: whenever add_mapping returns, the store holds exactly the
\* full in-memory dictionary, a failed write included.
C10_StoreAlwaysMatchesMemory ==
    AddReturned => StoreHolds(last.inst, mappings[last.inst].dict)

\* C10 as amended: whenever add_mapping returns and its write to the store
\* did not fail, the store holds exactly the full in-memory dictionary: every
\* key added so far through the instance, with its latest value.
C10_SavedStoreMatchesMemory ==
    (AddReturned /\ last.io = "ok") => StoreHolds(last.inst, mappings[last.inst].dict)

C10_Witness ==
    /\ AddReturned
    /\ last.io = "ok"
    /\ adds >= 2
    /\ store.kind = "json"
    /\ Len(store.members) >= 2
    /\ store.members = mappings[last.inst].dict

\* raw_name is already clean: the cleanup of normalize leaves it as it is
IsClean(raw_name) == raw_name # <<>> /\ RemoveSpaces(CleanName(raw_name)) = raw_name

\* C11: dictionary I/O failures never propagate out of the normalizer: no
\* construction and no add_mapping raises; a construction that met a missing,
\* unreadable or corrupt store leaves an instance with an empty dictionary,
\* and normalize on it returns a string.
C11_IOFailuresNeverPropagate ==
    /\ last.op \in {"init", "add_mapping"} => ~last.raised
    /\ (last.op = "init" /\ (last.io # "ok" \/ store.kind # "json")) =>
          /\ mappings[last.inst].built
          /\ mappings[last.inst].dict = <<>>
          /\ \A n \in {<<>>, <<"A", "b">>} :
                Normalize(mappings[last.inst].dict, n) \in Seq(WordChars)

\* C16: after add_mapping(a, b) with a already clean, normalize of every name
\* equal to a ignoring letter case returns b on that instance, whatever an
\* earlier add_mapping registered under a key differing from a only in case.
C16_AddOverwritesIgnoringCase ==
    (AddReturned /\ IsClean(last.raw_name)) =>
        \A n \in RawNames :
            Lower(n) = Lower(last.raw_name) =>
                Normalize(mappings[last.inst].dict, n) = last.standardized_name

\* str.isalnum() on one character
IsAlnum(c) == c \in Range(Uppers) \cup Range(Lowers) \cup Digits

\* No key of d equals s ignoring case
NoMatchingKey(d, s) == \A k \in DOMAIN d : Lower(d[k].key) # Lower(s)

\* C12: normalize is idempotent: when s = normalize(r) has no matching
\* dictionary key and holds only alphanumeric characters (the empty string
\* included), normalize(s) = s.
C12_NormalizeIdempotent ==
    (/\ last.op = "normalize"
     /\ last.again
     /\ NoMatchingKey(mappings[last.inst].dict, last.raw_name)
     /\ \A k \in DOMAIN last.raw_name : IsAlnum(last.raw_name[k]))
        => last.ret = last.raw_name

\* C17: for a non-empty raw name with no matching dictionary key, the string
\* normalize returns holds only alphanumeric characters: no whitespace of any
\* kind, no underscore, no punctuation.
C17_UnmatchedOutputAlphanumeric ==
    (/\ last.op = "normalize"
     /\ last.raw_name # <<>>
     /\ Lookup(mappings[last.inst].dict, Lower(CleanName(last.raw_name))) = <<>>)
        => \A k \in DOMAIN last.ret : IsAlnum(last.ret[k])

(***************************************************************************)
(* Properties of process_pdf_task                                          *)
(***************************************************************************)

\* The invoice rows of job j
InvoicesOf(j) == {k \in DOMAIN db_invoices : db_invoices[k].job_id = j}

\* The task of job j has ended, by returning or by raising
TaskOver(j) == trace[j].task \in {"returned", "raised"}

\* C13: a job whose row says FAILED carries the message of the error that
\* sent its task to the handler and has no invoice row, wherever the error
\* arose: first commit, rendering, cascade, split or persisting the invoice.
C13_FailedJobHasMessageAndNoInvoice ==
    \A j \in Jobs :
        db_jobs[j].status = FAILED =>
            /\ trace[j].error # None
            /\ db_jobs[j].error_message = Str(trace[j].error)
            /\ InvoicesOf(j) = {}

C13_Witness ==
    \E j \in Jobs :
        /\ db_jobs[j].status = FAILED
        /\ trace[j].split = "ok"
        /\ trace[j].persist = "fails"
        /\ \E f \in files : f.holds = j
        /\ db_jobs[j].error_message = Str(CommitError)

\* A job whose split and final commit succeeded is COMPLETED with one invoice
C14_CompletedHasOneInvoice ==
    \A j \in Jobs :
        (trace[j].split = "ok" /\ trace[j].persist = "ok") =>
            /\ db_jobs[j].status = COMPLETED
            /\ Cardinality(InvoicesOf(j)) = 1

\* The step that ends a task whose cascade returned (result, tier) and whose
\* split and final commit succeed writes an invoice with that tier and
\* that confidence
C14_InvoiceCarriesOutcome ==
    \A j \in Jobs :
        (/\ job_pc = "cascade"
         /\ cur = j
         /\ pc = "done"
         /\ ret.kind = "return"
         /\ trace'[j].split = "ok"
         /\ trace'[j].persist = "ok") =>
            /\ db_jobs'[j].status = COMPLETED
            /\ \E k \in DOMAIN db_invoices' :
                /\ db_invoices'[k].job_id = j
                /\ db_invoices'[k].tier_used = ret.tier
                /\ db_invoices'[k].confidence_score = ret.value.confidence

\* C14: a job whose cascade returns (result, tier) and whose split and
\* persistence succeed ends COMPLETED with exactly one Invoice, whose
\* tier_used is tier and whose confidence_score is result.confidence, a
\* low-confidence text_only outcome included.
C14_OutcomePersisted ==
    []C14_CompletedHasOneInvoice /\ [][C14_InvoiceCarriesOutcome]_vars

C14_Witness ==
    \E j \in Jobs :
        /\ db_jobs[j].status = COMPLETED
        /\ \E k \in InvoicesOf(j) :
            /\ db_invoices[k].tier_used = TIER_1
            /\ db_invoices[k].confidence_score < confidence_threshold

\* C19: when rendering page 0 fails, the cascade is never invoked for the job
\* and the job ends FAILED with the rendering error's message.
C19_RenderFailureFailsJob ==
    \A j \in Jobs :
        trace[j].error = RenderError =>
            /\ ~trace[j].invoked
            /\ TaskOver(j)
            /\ db_jobs[j].status = FAILED
            /\ db_jobs[j].error_message = Str(RenderError)

\* The status transitions of the lifecycle
Lifecycle == {<<PENDING, PROCESSING>>, <<PROCESSING, COMPLETED>>, <<PROCESSING, FAILED>>}

\* C20: every job starts PENDING; its status only goes PENDING -> PROCESSING,
\* PROCESSING -> COMPLETED or PROCESSING -> FAILED; once its task has ended
\* its status is COMPLETED or FAILED, never PENDING or PROCESSING.
C20_StatusLifecycle ==
    \A j \in Jobs :
        /\ status_log[j] # <<>> => status_log[j][1] = PENDING
        /\ \A i \in 1..(Len(status_log[j]) - 1) :
                <<status_log[j][i], status_log[j][i + 1]>> \in Lifecycle
        /\ TaskOver(j) => db_jobs[j].status \in {COMPLETED, FAILED}

(***************************************************************************)
(* Several CompanyNormalizer instances over one store                      *)
(***************************************************************************)

\* The store holds the pair p = <<key, value>>
Persisted(p) ==
    /\ store.kind = "json"
    /\ \E k \in DOMAIN store.members : store.members[k] = [key |-> p[1], value |-> p[2]]

\* The store has no entry under the key of p
KeyAbsent(p) ==
    store.kind # "json" \/ \A k \in DOMAIN store.members : store.members[k].key # p[1]

\* Every add_mapping so far went through instance i
SingleWriter(i) == \A k \in Instances : k # i => added[k] = {}

\* C21: with every add_mapping going through one instance and every save
\* succeeding, each mapping added is in the store, with its latest value;
\* and when the saves succeed a mapping added through an instance is missing
\* from the store only because another instance has written since: the
\* store is then the wholesale copy of that other instance's dictionary.
\* That such a loss happens with two instances is C21_Witness.
C21_SingleWriterLosesNothing ==
    ~save_failed =>
        \A i \in Instances :
            /\ SingleWriter(i) => \A p \in added[i] : Persisted(p)
            /\ \A p \in added[i] :
                ~Persisted(p) =>
                    \E k \in Instances :
                        /\ k # i
                        /\ added[k] # {}
                        /\ store = JsonDump(mappings[k].dict)

\* The lost update: two instances, each has added a mapping and every save
\* succeeded, yet the store has nothing under a key added through one of them
C21_Witness ==
    /\ ~save_failed
    /\ \E i, k \in Instances :
        /\ i # k
        /\ mappings[i].built /\ mappings[k].built
        /\ added[i] # {} /\ added[k] # {}
        /\ \E p \in added[i] :
            /\ KeyAbsent(p)
            /\ HasKey(mappings[i].dict, p[1])
        /\ store = JsonDump(mappings[k].dict)

(***************************************************************************)
(* The output files of completed jobs                                      *)
(***************************************************************************)

\* C22: the invoices of two COMPLETED jobs record distinct files, and the
\* file an invoice of a COMPLETED job records holds that job's pages: no
\* later task has replaced it, not even one that yields the same normalized
\* company name, PO number and invoice number.
C22_CompletedOutputsDistinct ==
    /\ \A a, b \in DOMAIN db_invoices :
        (/\ a # b
         /\ db_jobs[db_invoices[a].job_id].status = COMPLETED
         /\ db_jobs[db_invoices[b].job_id].status = COMPLETED)
            => db_invoices[a].original_split_path # db_invoices[b].original_split_path
    /\ \A a \in DOMAIN db_invoices :
        db_jobs[db_invoices[a].job_id].status = COMPLETED =>
            \E f \in files :
                /\ f.path = db_invoices[a].original_split_path
                /\ f.holds = db_invoices[a].job_id

====
